---- MODULE Spec2Model ----
(***************************************************************************)
(* gget: downloadFile (src/main.go) as a state machine.                    *)
(*                                                                         *)
(* One run of downloadFile is one behaviour.  The program counter pc sits  *)
(* at the next blocking call of the function (url.Parse, os.Stat, ask,     *)
(* os.RemoveAll, http.Get, the status test, os.Create, Body.Read,          *)
(* File.Write, onProgressSuccess); each action is that call together with  *)
(* all the straight-line code up to the next one.  The operating system,   *)
(* the HTTP server and the user are the nondeterministic inputs.           *)
(*                                                                         *)
(* Strings that are paths are kept as the list of their "/"-separated      *)
(* components (strings.Split(s, "/")): "" is <<"">>, "/" is <<"","">>,     *)
(* "/tmp/f" is <<"","tmp","f">>, "/tmp/" is <<"","tmp","">>.               *)
(* Other strings are lists of one-character strings.                       *)
(* float64 values are exact rationals <<num, den>> with den > 0; the IEEE   *)
(* specials are <<1, 0>> (+Inf), <<-1, 0>> (-Inf) and <<0, 0>> (NaN).       *)
(***************************************************************************)
EXTENDS Integers, Sequences, FiniteSets, TLC

\* ------------------------------------------------------------- bounds ---

\* Largest number of body bytes a server sends in the model.
MaxBody == 3
\* Size of chunkBuffer, scaled down from 1024*1024 bytes.
BufSize == 2
\* The wall clock advances in half seconds; it stops after MaxTicks of them.
MaxTicks == 5
\* Reads that return (0, nil) are legal for an io.Reader; at most this many.
MaxZeroReads == 1
\* Longest line, in characters, typed at the prompt when ask runs on its own.
MaxLine == 4

\* Clock ticks per second (the clock of the model has half-second steps).
TicksPerSec == 2

\* ------------------------------------------------------ small helpers ---

Min(a, b) == IF a <= b THEN a ELSE b

\* glog.Max as used at main.go:123
Max(a, b) == IF a >= b THEN a ELSE b

Last(s) == s[Len(s)]

Front(s) == SubSeq(s, 1, Len(s) - 1)

IsPrefix(s, t) == Len(s) <= Len(t) /\ SubSeq(t, 1, Len(s)) = s

\* ------------------------------------------------- path/filepath, Go ---

\* strings.HasPrefix(p, "/") on a component list
Rooted(p) == Len(p) >= 2 /\ p[1] = ""

RECURSIVE StripTrailingEmpty(_)
\* filepath.Base: "Trailing path separators are removed"
StripTrailingEmpty(p) ==
    IF Len(p) >= 2 /\ Last(p) = "" THEN StripTrailingEmpty(Front(p)) ELSE p

\* filepath.Base(path): "." for the empty path, "/" for a path of slashes
\* only, the last element otherwise.
Base(p) ==
    IF p = <<"">> THEN <<".">>
    ELSE LET q == StripTrailingEmpty(p) IN
         IF q = <<"">> THEN <<"", "">>
         ELSE <<Last(q)>>

RECURSIVE CleanFold(_, _, _)
\* the element loop of filepath.Clean: "" and "." are dropped, ".." removes
\* the element before it (or is dropped at the root, or kept in a relative
\* path that has nothing left to remove).
CleanFold(p, out, rooted) ==
    IF p = <<>> THEN out
    ELSE LET c == Head(p) IN
         IF c = "" \/ c = "." THEN CleanFold(Tail(p), out, rooted)
         ELSE IF c = ".." THEN
              IF out # <<>> /\ Last(out) # ".." THEN CleanFold(Tail(p), Front(out), rooted)
              ELSE IF rooted THEN CleanFold(Tail(p), out, rooted)
              ELSE CleanFold(Tail(p), Append(out, ".."), rooted)
         ELSE CleanFold(Tail(p), Append(out, c), rooted)

\* filepath.Clean
Clean(p) ==
    LET out == CleanFold(p, <<>>, Rooted(p)) IN
    IF Rooted(p) THEN (IF out = <<>> THEN <<"", "">> ELSE <<"">> \o out)
    ELSE IF out = <<>> THEN <<".">> ELSE out

\* the directory left out of the joined path
Join_NameOnly(dir, name) == Clean(name)

\* filepath.Join(dir, name): empty elements are ignored, the rest joined
\* with "/" and cleaned.  name is never empty here (Base never returns "").
Join(dir, name) ==
    IF dir = <<"">> THEN Clean(name) ELSE Clean(dir \o name)

\* The working directory of the process.
Cwd == <<"", "w">>

\* The absolute path the kernel resolves a path name to.
Resolve(p) == IF Rooted(p) THEN Clean(p) ELSE Clean(Cwd \o p)

\* a is a proper ancestor directory of b (both resolved)
IsAncestor(a, b) ==
    LET na == IF a = <<"", "">> THEN <<"">> ELSE a
        nb == IF b = <<"", "">> THEN <<"">> ELSE b
    IN  na # nb /\ IsPrefix(na, nb)

\* ----------------------------------------------------------- inputs ---

\* What url.Parse makes of srcURL: ok = FALSE is a parse error; otherwise the
\* Scheme and the Path of the result.
\*   1 "http://[::1"            parse error
\*   2 "example.com/f"          no scheme
\*   3 "https://example.com"    empty path
\*   4 "https://example.com/"   path "/"
\*   5 "https://example.com/f"
\*   6 "https://example.com/a/f/"
\*   7 "https://example.com/a/.."
URLs ==
    { [ok |-> FALSE, scheme |-> "",      path |-> <<"">>],
      [ok |-> TRUE,  scheme |-> "",      path |-> <<"example.com", "f">>],
      [ok |-> TRUE,  scheme |-> "https", path |-> <<"">>],
      [ok |-> TRUE,  scheme |-> "https", path |-> <<"", "">>],
      [ok |-> TRUE,  scheme |-> "https", path |-> <<"", "f">>],
      [ok |-> TRUE,  scheme |-> "https", path |-> <<"", "a", "f", "">>],
      [ok |-> TRUE,  scheme |-> "https", path |-> <<"", "a", "..">>] }

\* os.Args[2]: "/tmp", "/tmp/" and the default "." (main.go:203)
DstDirs == { <<"", "tmp">>, <<"", "tmp", "">>, <<".">> }

\* The bytes of a file that was on disk before the run.
OldData == <<8, 9>>

\* The body the server sends is the byte sequence 1, 2, 3, ...
BodyBytes(from, n) == [i \in 1..n |-> from + i]

Absent == [kind |-> "absent", data |-> <<>>]
Dir == [kind |-> "dir", data |-> <<>>]
File(d) == [kind |-> "file", data |-> d]

\* ------------------------------------------------------------ float64 ---

RECURSIVE GCD(_, _)
GCD(a, b) == IF b = 0 THEN a ELSE GCD(b, a % b)

Abs(a) == IF a < 0 THEN -a ELSE a

\* the rational num/den in lowest terms with a positive denominator
Rat(num, den) ==
    LET g == GCD(Abs(num), Abs(den))
        s == IF den < 0 THEN -1 ELSE 1
    IN  <<s * (num \div g), s * (den \div g)>>

\* float64(i) of an int64
Float(i) == <<i, 1>>

Sign(a) == IF a > 0 THEN 1 ELSE IF a < 0 THEN -1 ELSE 0

\* x / y on float64 (IEEE 754 division, without rounding): a finite value
\* divided by zero is an infinity, 0/0 and Inf/Inf are NaN, finite/Inf is 0.
FloatDiv(x, y) ==
    IF x = <<0, 0>> \/ y = <<0, 0>> THEN <<0, 0>>
    ELSE IF x[2] = 0 THEN (IF y[2] = 0 THEN <<0, 0>>
                           ELSE <<x[1] * (IF y[1] < 0 THEN -1 ELSE 1), 0>>)
    ELSE IF y[2] = 0 THEN <<0, 1>>
    ELSE IF y[1] = 0 THEN (IF x[1] = 0 THEN <<0, 0>> ELSE <<Sign(x[1]), 0>>)
    ELSE Rat(x[1] * y[2], x[2] * y[1])

\* int64(time.Since(timeStart).Seconds()): whole seconds, truncated
WholeSeconds(t) == t \div TicksPerSec

\* ---------------------------------------------------------------- ask ---

\* strings.ToLower on the letters that occur
LowerChar(c) ==
    CASE c = "Y" -> "y"
      [] c = "E" -> "e"
      [] c = "S" -> "s"
      [] c = "N" -> "n"
      [] c = "O" -> "o"
      [] OTHER -> c

ToLower(s) == [i \in DOMAIN s |-> LowerChar(s[i])]

\* A line typed at the prompt: its space-separated words, and whether the
\* input ended without a newline.
Lines ==
    { [words |-> <<>>, eof |-> TRUE],
      [words |-> <<>>, eof |-> FALSE],
      [words |-> << <<"y">> >>, eof |-> FALSE],
      [words |-> << <<"Y">> >>, eof |-> TRUE],
      [words |-> << <<"y", "e", "s">> >>, eof |-> FALSE],
      [words |-> << <<"Y", "e", "S">> >>, eof |-> FALSE],
      [words |-> << <<"n">> >>, eof |-> FALSE],
      [words |-> << <<"N", "O">> >>, eof |-> FALSE],
      [words |-> << <<"y", "e">> >>, eof |-> FALSE],
      [words |-> << <<"y">>, <<"n">> >>, eof |-> FALSE],
      [words |-> << <<"y", "e", "s">>, <<"y">> >>, eof |-> FALSE] }

\* The characters typed when ask runs on its own.
Alphabet == {"y", "Y", "e", "s", "S", "n", " "}

\* The raw input of such a run: the characters before the newline (or before
\* the end of input, when eof).
RawLines ==
    [chars : UNION { [1..k -> Alphabet] : k \in 0..MaxLine }, eof : BOOLEAN]

RECURSIVE FieldsFold(_, _, _)
\* Scanln's reading of words: blanks separate words and are skipped.
FieldsFold(chars, cur, out) ==
    IF chars = <<>> THEN (IF cur = <<>> THEN out ELSE Append(out, cur))
    ELSE IF Head(chars) = " "
         THEN FieldsFold(Tail(chars), <<>>, IF cur = <<>> THEN out ELSE Append(out, cur))
         ELSE FieldsFold(Tail(chars), Append(cur, Head(chars)), out)

\* the words Scanln finds in a raw line
ReadLine(raw) == [words |-> FieldsFold(raw.chars, <<>>, <<>>), eof |-> raw.eof]

\* fmt.Scanln(&response): the first word is stored; the error is nil only
\* when the line holds exactly one word.
Scanln(line) ==
    [response |-> IF line.words = <<>> THEN <<>> ELSE line.words[1],
     err |-> IF Len(line.words) = 1 THEN "nil"
             ELSE IF line.words # <<>> THEN "expected newline"
             ELSE IF line.eof THEN "EOF" ELSE "unexpected newline"]

\* the switch of ask without strings.ToLower
AnswerIsYes_CaseSensitive(response) ==
    response \in { <<"y">>, <<"y", "e", "s">> }

\* the switch of ask
AnswerIsYes(response) ==
    ToLower(response) \in { <<"y">>, <<"y", "e", "s">> }

\* ask(message) for the line the user types
ask(line) ==
    LET r == Scanln(line) IN
    IF r.err = "nil" THEN AnswerIsYes(r.response) ELSE FALSE

\* -------------------------------------------------------------- state ---

VARIABLES
    srcURL,            \* what url.Parse returns for the argument srcURL
    dstDir,            \* the argument dstDir
    fs0,               \* the file system when downloadFile was called
    fs,                \* the file system: resolved path -> entry
    pc,                \* the next call of downloadFile
    dstName, dstPath,  \* locals of downloadFile
    answers,           \* what ask returned, one entry per prompt
    resp,              \* the response of http.Get: StatusCode, ContentLength
    acquired,          \* "body"/"file" -> has been opened
    closes,            \* "body"/"file" -> number of Close calls
    defers,            \* the deferred calls registered so far
    bodyPos,           \* body bytes the reads have returned
    zeroReads,         \* reads that returned (0, nil)
    n, rerr, chunk,    \* result of the last Body.Read: n, err, chunkBuffer[:n]
    bytesTotal, bytesRead, progress, speed, secondsRemaining,
    ticks,             \* clock ticks since timeStart
    calls,             \* the callback invocations, in order, with arguments
    io,                \* number of calls of each I/O operation
    log,               \* the I/O operations issued, in order, with arguments
    ret,               \* the values downloadFile returned
    askRun             \* a call of ask on its own: the line typed, the result

vars == << srcURL, dstDir, fs0, fs, pc, dstName, dstPath, answers, resp,
           acquired, closes, defers, bodyPos, zeroReads, n, rerr, chunk,
           bytesTotal, bytesRead, progress, speed, secondsRemaining,
           ticks, calls, io, log, ret, askRun >>

inputVars == << srcURL, dstDir, fs0 >>

loopVars == << bodyPos, zeroReads, n, rerr, chunk, bytesTotal, bytesRead,
               progress, speed, secondsRemaining, ticks >>

Entries == { Absent, Dir, File(OldData) }

\* The two paths of the file system a run can touch.
FsPaths(u, d) == { Resolve(d), Resolve(Join(d, Base(u.path))) }

\* An entry exists only inside a directory.
Consistent(f) ==
    \A a \in DOMAIN f, b \in DOMAIN f :
        (IsAncestor(a, b) /\ f[b].kind # "absent") => f[a].kind = "dir"

NoRet == [path |-> <<>>, err |-> "running"]

\* ask has not been called on its own
NoAsk == [chars |-> <<>>, eof |-> FALSE, called |-> FALSE, ok |-> FALSE]

Init ==
    /\ srcURL \in URLs
    /\ dstDir \in DstDirs
    /\ fs0 \in { f \in [FsPaths(srcURL, dstDir) -> Entries] : Consistent(f) }
    /\ fs = fs0
    /\ pc = "parse"
    /\ dstName = <<>>
    /\ dstPath = <<>>
    /\ answers = <<>>
    /\ resp = [StatusCode |-> 0, ContentLength |-> 0]
    /\ acquired = [r \in {"body", "file"} |-> FALSE]
    /\ closes = [r \in {"body", "file"} |-> 0]
    /\ defers = <<>>
    /\ bodyPos = 0
    /\ zeroReads = 0
    /\ n = 0
    /\ rerr = "nil"
    /\ chunk = <<>>
    /\ bytesTotal = 0
    /\ bytesRead = 0
    /\ progress = Float(0)
    /\ speed = Float(0)
    /\ secondsRemaining = Float(0)
    /\ ticks = 0
    /\ calls = <<>>
    /\ io = [op \in {"stat", "remove", "get", "create", "read", "write"} |-> 0]
    /\ log = <<>>
    /\ ret = NoRet
    /\ askRun = NoAsk

\* ---------------------------------------------------- the environment ---

\* os.Stat(p) returns a nil error
StatOk(f, p) == f[Resolve(p)].kind # "absent"

\* os.RemoveAll that reports success and removes nothing
Removed_Nothing(f, p) == f

\* the file system after a successful os.RemoveAll(p)
Removed(f, p) ==
    [q \in DOMAIN f |->
        IF q = Resolve(p) \/ IsAncestor(Resolve(p), q) THEN Absent ELSE f[q]]

\* the file systems a failed os.RemoveAll(p) can leave: nothing removed, or
\* (for a directory) what is below it removed
RemoveFailed(f, p) ==
    { f, [q \in DOMAIN f |-> IF IsAncestor(Resolve(p), q) THEN Absent ELSE f[q]] }

\* os.Create(p) can succeed: p is no directory and lies in a directory
CanCreate(f, p) ==
    /\ f[Resolve(p)].kind # "dir"
    /\ \A a \in DOMAIN f : IsAncestor(a, Resolve(p)) => f[a].kind = "dir"

\* os.Create: create or truncate
Created(f, p) == [f EXCEPT ![Resolve(p)] = File(<<>>)]

\* destFile.Write(b) that stores the first k bytes of b
Written(f, p, b, k) ==
    [f EXCEPT ![Resolve(p)] = File(f[Resolve(p)].data \o SubSeq(b, 1, k))]

\* resp.StatusCode of the responses
StatusCodes == {200, 204, 206, 404}

\* resp.ContentLength: -1 when the server declares none
ContentLengths == {-1} \cup (0..MaxBody)

\* The number of bytes the body can still deliver: net/http limits a body
\* with a declared length to that length.
BodyLeft == (IF resp.ContentLength >= 0 THEN resp.ContentLength ELSE MaxBody) - bodyPos

\* The results (n, err) resp.Body.Read can return: up to len(chunkBuffer)
\* bytes; io.EOF only at the declared end of the body (anywhere when no
\* length is declared); any other error at any time.
ReadResults ==
    { r \in [n : 0..Min(BufSize, BodyLeft), err : {"nil", "EOF", "read error"}] :
        /\ (r.err = "EOF" /\ resp.ContentLength >= 0) => r.n = BodyLeft
        /\ (r.err = "nil" /\ r.n = 0) => zeroReads < MaxZeroReads }

\* ------------------------------------------------- return and callbacks ---

\* the deferred Close of the body left out
DeferBodyClose_Forgotten(d) == d

\* defer resp.Body.Close()                                     main.go:88
DeferBodyClose(d) == Append(d, "body")

\* defer destFile.Close()                                      main.go:98
DeferFileClose(d) == Append(d, "file")

\* One I/O operation as issued: the path it names, the bytes it returned
\* (Read) or was handed (Write), how many of them a Write stored, its error.
Event(op, path, data, stored, err) ==
    [op |-> op, path |-> path, data |-> data, stored |-> stored, err |-> err]

\* return path, err: the values are returned and the deferred calls run.
Return(path, err) ==
    /\ pc' = "done"
    /\ ret' = [path |-> path, err |-> err]
    /\ closes' = [r \in DOMAIN closes |->
                    closes[r] + Cardinality({i \in DOMAIN defers : defers[i] = r})]
    /\ defers' = <<>>

\* One callback invocation: the arguments, and what has happened by then
\* (reads and writes issued, bytes the reads returned, bytes in the file,
\* I/O operations issued).
Call(kind, name, bt, br, pr, sp, sr, err, f) ==
    [kind |-> kind, fileName |-> name, bytesTotal |-> bt, bytesRead |-> br,
     progress |-> pr, speed |-> sp, secondsRemaining |-> sr, err |-> err,
     reads |-> io'["read"], writes |-> io'["write"], delivered |-> bodyPos',
     fileLen |-> Len(f[Resolve(dstPath)].data), at |-> Len(log')]

\* the failure reported without its error
OnFailure_NilErr(err) ==
    calls' = Append(calls, Call("failure", dstName, bytesTotal, bytesRead,
                                progress, speed, secondsRemaining, "nil", fs'))

\* the failure reported with a zeroed transfer state
OnFailure_ZeroState(err) ==
    calls' = Append(calls, Call("failure", dstName, bytesTotal, 0,
                                Float(0), Float(0), Float(0), err, fs'))

\* onProgressError(dstName, ...) with the state of the last complete chunk
OnFailure(err) ==
    calls' = Append(calls, Call("failure", dstName, bytesTotal, bytesRead,
                                progress, speed, secondsRemaining, err, fs'))

\* ------------------------------------------------------------ actions ---

\* the scheme test left out
SchemeMissing_Never(u) == FALSE

\* u.Scheme == ""                                              main.go:64
SchemeMissing(u) == u.scheme = ""

\* main.go:60-70: parse the URL, reject it, or derive the destination.
ParseURL ==
    /\ pc = "parse"
    /\ IF ~srcURL.ok
       THEN /\ Return(<<"">>, "parse error")
            /\ UNCHANGED <<dstName, dstPath>>
       ELSE IF SchemeMissing(srcURL)
       THEN /\ Return(<<"">>, "not a valid URL")
            /\ UNCHANGED <<dstName, dstPath>>
       ELSE /\ dstName' = Base(srcURL.path)
            /\ dstPath' = Join(dstDir, Base(srcURL.path))
            /\ pc' = "stat"
            /\ UNCHANGED <<ret, closes, defers>>
    /\ UNCHANGED <<inputVars, askRun, fs, answers, resp, acquired, loopVars, calls,
                   io, log>>

\* main.go:71: os.Stat(dstPath)
Stat ==
    /\ pc = "stat"
    /\ io' = [io EXCEPT !["stat"] = @ + 1]
    /\ log' = Append(log, Event("stat", dstPath, <<>>, 0,
                                IF StatOk(fs, dstPath) THEN "nil" ELSE "not found"))
    /\ pc' = IF StatOk(fs, dstPath) THEN "ask" ELSE "get"
    /\ UNCHANGED <<inputVars, askRun, fs, dstName, dstPath, answers, resp, acquired,
                   closes, defers, loopVars, calls, ret>>

\* the answer of the prompt ignored
Declined_Never(ok) == FALSE

\* if !ok                                                      main.go:74
Declined(ok) == ~ok

\* main.go:72-76: the prompt; a declined prompt ends the run.
Ask ==
    /\ pc = "ask"
    /\ \E line \in Lines :
         /\ answers' = Append(answers, ask(line))
         /\ IF Declined(ask(line))
            THEN Return(dstPath, "Download cancelled!")
            ELSE pc' = "remove" /\ UNCHANGED <<ret, closes, defers>>
    /\ UNCHANGED <<inputVars, askRun, fs, dstName, dstPath, resp, acquired, loopVars,
                   calls, io, log>>

\* main.go:78-81: os.RemoveAll(dstPath)
RemoveAll ==
    /\ pc = "remove"
    /\ io' = [io EXCEPT !["remove"] = @ + 1]
    /\ \/ /\ fs' = Removed(fs, dstPath)
          /\ log' = Append(log, Event("remove", dstPath, <<>>, 0, "nil"))
          /\ pc' = "get"
          /\ UNCHANGED <<ret, closes, defers>>
       \/ /\ fs' \in RemoveFailed(fs, dstPath)
          /\ log' = Append(log, Event("remove", dstPath, <<>>, 0, "remove error"))
          /\ Return(dstPath, "remove error")
    /\ UNCHANGED <<inputVars, askRun, dstName, dstPath, answers, resp, acquired,
                   loopVars, calls>>

\* main.go:84-88: http.Get(srcURL)
HttpGet ==
    /\ pc = "get"
    /\ io' = [io EXCEPT !["get"] = @ + 1]
    /\ \/ /\ Return(dstPath, "transport error")
          /\ log' = Append(log, Event("get", <<>>, <<>>, 0, "transport error"))
          /\ UNCHANGED <<resp, acquired>>
       \/ /\ \E st \in StatusCodes, cl \in ContentLengths :
               resp' = [StatusCode |-> st, ContentLength |-> cl]
          /\ log' = Append(log, Event("get", <<>>, <<>>, 0, "nil"))
          /\ acquired' = [acquired EXCEPT !["body"] = TRUE]
          /\ defers' = DeferBodyClose(defers)
          /\ pc' = "status"
          /\ UNCHANGED <<ret, closes>>
    /\ UNCHANGED <<inputVars, askRun, fs, dstName, dstPath, answers, loopVars, calls>>

\* every 2xx status accepted
BadStatus_Non2xx(code) == code < 200 \/ code > 299

\* resp.StatusCode != 200                                      main.go:90
BadStatus(code) == code # 200

\* main.go:90-92
CheckStatus ==
    /\ pc = "status"
    /\ IF BadStatus(resp.StatusCode)
       THEN Return(dstPath, "bad status")
       ELSE pc' = "create" /\ UNCHANGED <<ret, closes, defers>>
    /\ UNCHANGED <<inputVars, askRun, fs, dstName, dstPath, answers, resp, acquired,
                   loopVars, calls, io, log>>

\* main.go:94-106: os.Create(dstPath) and the initial transfer state
Create ==
    /\ pc = "create"
    /\ io' = [io EXCEPT !["create"] = @ + 1]
    /\ \/ /\ Return(dstPath, "create error")
          /\ log' = Append(log, Event("create", dstPath, <<>>, 0, "create error"))
          /\ UNCHANGED <<fs, acquired, loopVars>>
       \/ /\ CanCreate(fs, dstPath)
          /\ fs' = Created(fs, dstPath)
          /\ log' = Append(log, Event("create", dstPath, <<>>, 0, "nil"))
          /\ acquired' = [acquired EXCEPT !["file"] = TRUE]
          /\ defers' = DeferFileClose(defers)
          /\ bytesTotal' = resp.ContentLength
          /\ bytesRead' = 0
          /\ ticks' = 0
          /\ progress' = Float(0)
          /\ speed' = Float(0)
          /\ secondsRemaining' = Float(0)
          /\ pc' = "read"
          /\ UNCHANGED <<ret, closes, bodyPos, zeroReads, n, rerr, chunk>>
    /\ UNCHANGED <<inputVars, askRun, dstName, dstPath, answers, resp, calls>>

\* err != nil && err != io.EOF                                 main.go:110
ReadFailed(err) == err # "nil" /\ err # "EOF"

\* the n > 0 test left out
HasData_Always(k) == TRUE

\* if n > 0                                                    main.go:115
HasData(k) == k > 0

\* the failure reported, but the loop not left
Abort_NoReturn(err) ==
    OnFailure(err) /\ pc' = "read" /\ UNCHANGED <<ret, closes, defers>>

\* main.go:111-112 and 118-119: report the failure and return
Abort(err) == OnFailure(err) /\ Return(dstPath, err)

\* the break at end of stream left out
AfterChunk_NeverBreak(err) == "read"

\* main.go:129-131: leave the loop at end of stream, else read again
AfterChunk(err) == IF err = "EOF" THEN "success" ELSE "read"

\* main.go:109-115, 129-131: one resp.Body.Read and what follows it up to
\* the write of the chunk
Read ==
    /\ pc = "read"
    /\ UNCHANGED <<inputVars, askRun, fs, dstName, dstPath, answers, resp, acquired,
                   bytesTotal, bytesRead, progress, speed, secondsRemaining, ticks>>
    /\ \E r \in ReadResults :
         /\ n' = r.n
         /\ rerr' = r.err
         /\ chunk' = BodyBytes(bodyPos, r.n)
         /\ bodyPos' = bodyPos + r.n
         /\ zeroReads' = IF r.n = 0 /\ r.err = "nil" THEN zeroReads + 1 ELSE zeroReads
         /\ io' = [io EXCEPT !["read"] = @ + 1]
         /\ log' = Append(log, Event("read", <<>>, BodyBytes(bodyPos, r.n), 0, r.err))
         /\ IF ReadFailed(r.err)
            THEN Abort(r.err)
            ELSE /\ pc' = IF HasData(r.n) THEN "write" ELSE AfterChunk(r.err)
                 /\ UNCHANGED <<calls, ret, closes, defers>>

\* bytesRead = int64(n): the count of the last chunk only
UpdateBytesRead_Assign(br, k) == k

\* bytesRead += int64(n)                                       main.go:121
UpdateBytesRead(br, k) == br + k

\* progress as a percentage
Progress_Percent(br, bt) == FloatDiv(Float(100 * br), Float(bt))

\* progress = float64(bytesRead) / float64(bytesTotal)         main.go:122
Progress(br, bt) == FloatDiv(Float(br), Float(bt))

\* the elapsed seconds used without the floor of 1
Speed_NoFloor(br, t) == FloatDiv(Float(br), Float(WholeSeconds(t)))

\* speed = float64(bytesRead) / float64(glog.Max(1, int64(time.Since(timeStart).Seconds())))
\*                                                             main.go:123
Speed(br, t) == FloatDiv(Float(br), Float(Max(1, WholeSeconds(t))))

\* secondsRemaining = float64(bytesTotal-bytesRead) / speed    main.go:124
SecondsRemaining(bt, br, sp) == FloatDiv(Float(bt - br), sp)

\* main.go:116-127, 129-131: destFile.Write(chunkBuffer[:n]), which stores
\* all n bytes, or fewer and reports an error; then the new transfer state
\* and onProgress.
Write ==
    /\ pc = "write"
    /\ UNCHANGED <<inputVars, askRun, dstName, dstPath, answers, resp, acquired,
                   bodyPos, zeroReads, n, rerr, chunk, bytesTotal, ticks>>
    /\ io' = [io EXCEPT !["write"] = @ + 1]
    /\ \/ /\ \E k \in 0..(n - 1) :
               /\ fs' = Written(fs, dstPath, chunk, k)
               /\ log' = Append(log, Event("write", <<>>, chunk, k, "write error"))
          /\ Abort("write error")
          /\ UNCHANGED <<bytesRead, progress, speed, secondsRemaining>>
       \/ /\ fs' = Written(fs, dstPath, chunk, n)
          /\ log' = Append(log, Event("write", <<>>, chunk, n, "nil"))
          /\ bytesRead' = UpdateBytesRead(bytesRead, n)
          /\ progress' = Progress(bytesRead', bytesTotal)
          /\ speed' = Speed(bytesRead', ticks)
          /\ secondsRemaining' = SecondsRemaining(bytesTotal, bytesRead', speed')
          /\ calls' = Append(calls, Call("progress", dstName, bytesTotal, bytesRead',
                                         progress', speed', secondsRemaining', "nil", fs'))
          /\ pc' = AfterChunk(rerr)
          /\ UNCHANGED <<ret, closes, defers>>

\* main.go:133-134: onProgressSuccess(dstPath, ...) and return dstPath, nil
Success ==
    /\ pc = "success"
    /\ UNCHANGED <<inputVars, askRun, fs, dstName, dstPath, answers, resp, acquired,
                   loopVars, io, log>>
    /\ calls' = Append(calls, Call("success", dstPath, bytesTotal, bytesRead,
                                   progress, speed, secondsRemaining, "nil", fs))
    /\ Return(dstPath, "nil")

\* Time passes while the transfer runs (time.Since(timeStart) grows).
Tick ==
    /\ pc \in {"read", "write"}
    /\ ticks < MaxTicks
    /\ ticks' = ticks + 1
    /\ UNCHANGED <<inputVars, askRun, fs, pc, dstName, dstPath, answers, resp, acquired,
                   closes, defers, bodyPos, zeroReads, n, rerr, chunk,
                   bytesTotal, bytesRead, progress, speed, secondsRemaining,
                   calls, io, log, ret>>

\* ask called on its own with a raw line typed at the prompt (main.go:32-51)
AskCall ==
    /\ ~askRun.called
    /\ \E raw \in RawLines :
         askRun' = [chars |-> raw.chars, eof |-> raw.eof, called |-> TRUE,
                    ok |-> ask(ReadLine(raw))]
    /\ UNCHANGED <<inputVars, fs, pc, dstName, dstPath, answers, resp, acquired,
                   closes, defers, loopVars, calls, io, log, ret>>

Next ==
    \/ ParseURL
    \/ Stat
    \/ Ask
    \/ RemoveAll
    \/ HttpGet
    \/ CheckStatus
    \/ Create
    \/ Read
    \/ Write
    \/ Success
    \/ Tick

Spec == Init /\ [][Next]_vars

\* downloadFile runs on one goroutine that is never suspended for good: as
\* long as a step of it is possible, a step is taken (every call it blocks
\* in returns).
\* Termination does not depend on the names involved: one URL, one directory.
LiveInit ==
    /\ Init
    /\ srcURL = [ok |-> TRUE, scheme |-> "https", path |-> <<"", "f">>]
    /\ dstDir = <<"", "tmp">>

LiveSpec == LiveInit /\ [][Next]_vars /\ WF_vars(Next)

\* ask on its own: downloadFile is not running.
AskInit ==
    /\ Init
    /\ ~srcURL.ok
    /\ dstDir = <<".">>
    /\ fs0[Resolve(dstDir)] = Dir

AskNext == AskCall

AskSpec == AskInit /\ [][AskNext]_vars

\* -------------------------------------------------------------- types ---

TypeOK ==
    /\ pc \in {"parse", "stat", "ask", "remove", "get", "status", "create",
               "read", "write", "success", "done"}
    /\ bodyPos \in 0..MaxBody
    /\ ticks \in 0..MaxTicks
    /\ Consistent(fs)

\* ------------------------------------------------- notions of the claims ---

Terminal(c) == c.kind \in {"success", "failure"}

TerminalCalls == { i \in DOMAIN calls : Terminal(calls[i]) }

ProgressCalls == { i \in DOMAIN calls : calls[i].kind = "progress" }

Returned == pc = "done"

\* the destination has been derived (the URL passed validation)
Resolved == dstPath # <<>>

\* the entry at the destination path now, and when the run began
Dest == fs[Resolve(dstPath)]

Dest0 == fs0[Resolve(dstPath)]

NoIO == \A op \in DOMAIN io : io[op] = 0

\* the URL path has no last element: "" or slashes only
EmptyBasename(u) == StripTrailingEmpty(u.path) = <<"">>

\* ------------------------------------------------------------- claims ---

\* C1: in every run the terminal callbacks are invoked at most once in total
\* (never both, never one twice), and after a terminal callback there is no
\* onProgress call, no further read of the body and no further write of the
\* file.
C1_TerminalAtMostOnce ==
    /\ Cardinality(TerminalCalls) <= 1
    /\ \A i \in TerminalCalls :
         /\ i = Len(calls)
         /\ io["read"] = calls[i].reads
         /\ io["write"] = calls[i].writes
         /\ bodyPos = calls[i].delivered
         /\ Len(Dest.data) = calls[i].fileLen

\* C1 witness: a run that made progress, then failed, and has returned.
C1_Witness ==
    /\ Returned
    /\ Len(calls) >= 2
    /\ calls[Len(calls)].kind = "failure"
    /\ calls[1].kind = "progress"

\* C2: every run that gets past URL validation and destination resolution
\* (it issued the GET) has invoked exactly one of onSuccess/onFailure when it
\* returns; a transport failure, a non-200 status and a failed os.Create are
\* reported through onFailure, and a nil error comes with onSuccess.
C2_TerminalOnEveryReturn ==
    (Returned /\ io["get"] >= 1) =>
        /\ Cardinality(TerminalCalls) = 1
        /\ (ret.err = "nil") = (calls[Len(calls)].kind = "success")

\* C3: for a URL with an empty path basename the run fails and never takes
\* the destination directory for the destination: no prompt, no deletion, no
\* os.Create, file system unchanged.
C3_EmptyBasenameFailsCleanly ==
    (srcURL.ok /\ ~SchemeMissing(srcURL) /\ EmptyBasename(srcURL)) =>
        /\ answers = <<>>
        /\ io["remove"] = 0
        /\ io["create"] = 0
        /\ fs = fs0
        /\ Returned => ret.err # "nil"

\* C4: when the destination path exists the user is asked, and the existing
\* entry is changed only after an affirmative answer; after a declined prompt
\* the run has returned the path with the cancellation error, the file system
\* is unchanged, no request was issued and no callback invoked.
C4_DeclinedLeavesFile ==
    (Resolved /\ Dest0.kind # "absent") =>
        /\ pc \notin {"stat", "ask"} => Len(answers) = 1
        /\ fs # fs0 => answers = <<TRUE>>
        /\ answers = <<FALSE>> =>
             /\ Returned
             /\ ret = [path |-> dstPath, err |-> "Download cancelled!"]
             /\ fs = fs0
             /\ io["remove"] = 0 /\ io["get"] = 0 /\ io["create"] = 0
             /\ calls = <<>>

\* C4 witness: an existing file, the prompt declined, the run returned.
C4_Witness ==
    /\ Returned
    /\ Resolved
    /\ Dest0 = File(OldData)
    /\ answers = <<FALSE>>

\* C5: when the destination exists and the prompt is accepted, the old entry
\* is removed before the GET is issued and its content is gone in every later
\* state, whatever happens to the request or the transfer; when the removal
\* fails its error is returned, no request is issued and no file created.
C5_AcceptedRemovesFirst ==
    (Resolved /\ Dest0.kind # "absent") =>
        /\ (pc = "get" \/ io["get"] >= 1) =>
             /\ answers = <<TRUE>>
             /\ io["remove"] = 1
             /\ Dest # Dest0
             /\ \A i \in DOMAIN Dest.data :
                    \A j \in DOMAIN OldData : Dest.data[i] # OldData[j]
        /\ pc = "get" => Dest.kind = "absent"
        /\ (Returned /\ answers = <<TRUE>> /\ io["get"] = 0) =>
             /\ ret = [path |-> dstPath, err |-> "remove error"]
             /\ io["create"] = 0
             /\ calls = <<>>

\* C5 witness: an old file, the prompt accepted, and the request failed.
C5_Witness ==
    /\ Returned
    /\ Resolved
    /\ Dest0 = File(OldData)
    /\ answers = <<TRUE>>
    /\ ret.err = "transport error"

\* C6: for a URL that does not parse or has no scheme the run returns an
\* error before any I/O: no stat, prompt, deletion, GET, file creation or
\* callback.
C6_InvalidURLNoIO ==
    (~srcURL.ok \/ srcURL.scheme = "") =>
        /\ pc \in {"parse", "done"}
        /\ NoIO
        /\ answers = <<>>
        /\ calls = <<>>
        /\ fs = fs0
        /\ ~acquired["body"] /\ ~acquired["file"]
        /\ Returned => ret.err \in {"parse error", "not a valid URL"}

\* C6 witness: a URL that parses but has no scheme, after the return.
C6_Witness ==
    /\ Returned
    /\ srcURL.ok
    /\ srcURL.scheme = ""

\* C7: for every response whose status is not exactly 200 (other 2xx codes
\* included) the run fails with the bad-status error, the destination file is
\* not created, and no body byte is read or written.
C7_BadStatusNoFile ==
    (acquired["body"] /\ resp.StatusCode # 200) =>
        /\ pc \in {"status", "done"}
        /\ io["create"] = 0 /\ io["read"] = 0 /\ io["write"] = 0
        /\ ~acquired["file"]
        /\ Dest.kind = "absent"
        /\ calls = <<>>
        /\ Returned => ret = [path |-> dstPath, err |-> "bad status"]

\* C7 witness: a 206 response, after the return.
C7_Witness ==
    /\ Returned
    /\ acquired["body"]
    /\ resp.StatusCode = 206

\* C8: at every onProgress call 0 <= bytesRead, and bytesRead <= bytesTotal
\* when bytesTotal is known (>= 0); bytesRead strictly increases from one
\* onProgress call to the next.
C8_ProgressBounds ==
    /\ \A i \in ProgressCalls :
         /\ calls[i].bytesRead >= 0
         /\ calls[i].bytesTotal >= 0 => calls[i].bytesRead <= calls[i].bytesTotal
    /\ \A i \in ProgressCalls, j \in ProgressCalls :
         i < j => calls[i].bytesRead < calls[j].bytesRead

\* C8 witness: two onProgress calls of a download of known length, the
\* second one at the full length.
C8_Witness ==
    /\ Len(calls) >= 2
    /\ calls[1].kind = "progress"
    /\ calls[2].kind = "progress"
    /\ calls[2].bytesTotal >= 0
    /\ calls[2].bytesRead = calls[2].bytesTotal

\* C9: at every onProgress call and at the onSuccess call, bytesRead equals
\* the sum of the sizes of the chunks read so far and the number of bytes in
\* the destination file at that moment; after onSuccess it is the size of
\* the file on disk (whose bytes are the bytes of the body).
C9_BytesReadIsFileSize ==
    /\ \A i \in DOMAIN calls :
         calls[i].kind \in {"progress", "success"} =>
             /\ calls[i].bytesRead = calls[i].delivered
             /\ calls[i].bytesRead = calls[i].fileLen
    /\ (Returned /\ ret.err = "nil") =>
             /\ Dest = File(BodyBytes(0, bytesRead))
             /\ calls[Len(calls)].bytesRead = Len(Dest.data)

\* C9 witness: a successful download of several chunks.
C9_Witness ==
    /\ Returned
    /\ ret.err = "nil"
    /\ Len(calls) >= 3
    /\ calls[Len(calls)].kind = "success"
    /\ calls[Len(calls)].bytesRead >= 2

\* C10: the response body and the destination file, once acquired, are each
\* closed exactly once on every return path, and not before the return.
C10_ClosedExactlyOnce ==
    \A r \in {"body", "file"} :
        /\ closes[r] = IF Returned /\ acquired[r] THEN 1 ELSE 0

\* C10 witness: a run that opened both and returned on a write error.
C10_Witness ==
    /\ Returned
    /\ acquired["body"]
    /\ acquired["file"]
    /\ ret.err = "write error"

\* a float64 that is a number (neither NaN nor an infinity)
Finite(x) == x[2] # 0

\* C11: when bytesTotal is unknown (-1) or zero, the progress and
\* secondsRemaining handed to every callback are a safe fallback: progress is
\* finite and within [0, 1], secondsRemaining is finite and not negative.
C11_SafeFallback ==
    \A i \in DOMAIN calls :
        calls[i].bytesTotal <= 0 =>
            /\ Finite(calls[i].progress)
            /\ calls[i].progress[1] >= 0
            /\ calls[i].progress[1] <= calls[i].progress[2]
            /\ Finite(calls[i].secondsRemaining)
            /\ calls[i].secondsRemaining[1] >= 0

\* the spellings of "y" and "yes" in either case
YesWords ==
    { <<a>> : a \in {"y", "Y"} } \cup
    { <<a, b, c>> : a \in {"y", "Y"}, b \in {"e", "E"}, c \in {"s", "S"} }

RECURSIVE TrimLeft(_)
TrimLeft(chars) ==
    IF chars # <<>> /\ Head(chars) = " " THEN TrimLeft(Tail(chars)) ELSE chars

RECURSIVE TrimRight(_)
TrimRight(chars) ==
    IF chars # <<>> /\ Last(chars) = " " THEN TrimRight(Front(chars)) ELSE chars

\* C12 as stated: ask returns true only when the line read is exactly "y" or
\* "yes" in either case; every other line gives false.
C12_OnlyExactYes ==
    (askRun.called /\ askRun.ok) => askRun.chars \in YesWords

\* C12 as amended: ask returns true exactly when the line read, leading and
\* trailing blanks aside, is "y" or "yes" in either case; every other line
\* (empty, end of input, another word, more than one word) gives false.
C12_YesAsideFromBlanks ==
    askRun.called =>
        (askRun.ok <=> TrimLeft(TrimRight(askRun.chars)) \in YesWords)

\* C12 witness: ask has returned true for a line in upper case.
C12_Witness ==
    /\ askRun.called
    /\ askRun.ok
    /\ askRun.chars = <<"Y", "e", "S">>

\* the URL passed validation
ValidURL == srcURL.ok /\ srcURL.scheme # ""

\* the last element of a "/"-separated path that is not empty
LastElement(p) ==
    LET idx == { i \in DOMAIN p : p[i] # "" }
    IN  p[CHOOSE i \in idx : \A j \in idx : j <= i]

\* the file named basename(url.path) in the directory dstDir
ExpectedDest == Resolve(dstDir \o <<LastElement(srcURL.path)>>)

PathOps == { i \in DOMAIN log : log[i].op \in {"stat", "remove", "create"} }

\* C13: for every valid URL with a non-empty path basename, the path handed
\* to os.Stat, os.RemoveAll and os.Create names destinationDir/basename(url.path),
\* and that same path is what downloadFile returns in every outcome after URL
\* validation.
C13_DestinationPath ==
    (ValidURL /\ ~EmptyBasename(srcURL)) =>
        /\ \A i \in PathOps :
             /\ Resolve(log[i].path) = ExpectedDest
             /\ log[i].path = dstPath
        /\ Returned =>
             /\ ret.path = dstPath
             /\ Resolve(ret.path) = ExpectedDest

\* C13 witness: "/a/f/" downloaded into "/tmp/" over an existing file: stat,
\* removal and creation have all happened and the run has returned.
C13_Witness ==
    /\ Returned
    /\ ret.err = "nil"
    /\ srcURL.path = <<"", "a", "f", "">>
    /\ dstDir = <<"", "tmp", "">>
    /\ { log[i].op : i \in PathOps } = {"stat", "remove", "create"}

Reads == { i \in DOMAIN log : log[i].op = "read" }

Writes == { i \in DOMAIN log : log[i].op = "write" }

\* C14: the n > 0 bytes a read returns are handed to destFile.Write before
\* the next read and before downloadFile returns, whatever error the read
\* returned with them: no byte a read returned is dropped.
C14_NoByteDropped ==
    \A i \in Reads :
        log[i].data # <<>> =>
            IF i < Len(log)
            THEN log[i + 1].op = "write" /\ log[i + 1].data = log[i].data
            ELSE pc = "write"

\* the writes that stored their whole chunk
GoodWrites == { i \in Writes : log[i].err = "nil" }

\* the reads and writes that failed (end of stream is no failure)
FailedTransfers ==
    { i \in Reads \cup Writes : log[i].err \notin {"nil", "EOF"} }

\* C15: reads, writes and progress callbacks strictly alternate: every chunk
\* with n > 0 is read, then written, then reported by exactly one onProgress
\* that carries the state updated with it, then the next read follows; the
\* number of onProgress calls is the number of non-empty chunks written in
\* full, and there is none for a failed write or a read with n = 0.
C15_StrictAlternation ==
    /\ \A i \in Reads :
         log[i].data # <<>> =>
             IF i < Len(log)
             THEN log[i + 1].op = "write" /\ log[i + 1].data = log[i].data
             ELSE pc = "write"
    /\ \A i \in Writes :
         /\ log[i].data # <<>>
         /\ log[i - 1].op = "read" /\ log[i - 1].data = log[i].data
         /\ i < Len(log) => log[i + 1].op = "read"
         /\ Cardinality({ c \in ProgressCalls : calls[c].at = i })
              = IF i \in GoodWrites THEN 1 ELSE 0
    /\ \A c \in ProgressCalls :
         /\ calls[c].at \in GoodWrites
         /\ calls[c].bytesRead = calls[c].delivered
    /\ Cardinality(ProgressCalls) = Cardinality(GoodWrites)

\* C16: a read error other than end of stream, or a write failure, invokes
\* onFailure exactly once with that error, is followed by no read, write or
\* onProgress, and returns that error with the destination path; onSuccess is
\* not invoked and the partial file stays on disk, neither deleted nor
\* truncated.
C16_FailureAborts ==
    \A i \in FailedTransfers :
        /\ i = Len(log)
        /\ Returned
        /\ ret = [path |-> dstPath, err |-> log[i].err]
        /\ TerminalCalls = {Len(calls)}
        /\ calls[Len(calls)].kind = "failure"
        /\ calls[Len(calls)].err = log[i].err
        /\ calls[Len(calls)].at = i
        /\ Dest.kind = "file"
        /\ Dest.data = BodyBytes(0, bytesRead + log[i].stored)

\* C16 witness: a write failed after a chunk had been written; the run has
\* returned and the partial file is on disk.
C16_Witness ==
    /\ Returned
    /\ FailedTransfers # {}
    /\ log[Len(log)].op = "write"
    /\ bytesRead >= 1
    /\ Dest.kind = "file"
    /\ Len(Dest.data) >= 1

\* the transfer state a callback was handed
StateOf(c) ==
    <<c.bytesTotal, c.bytesRead, c.progress, c.speed, c.secondsRemaining>>

\* A 200 response of declared length L > 0 was copied to its end: the file
\* was created, no read or write failed, and the run has returned.  (The
\* body of such a response reports end of stream only after L bytes.)
CopiedToEnd ==
    /\ Returned
    /\ acquired["file"]
    /\ resp.ContentLength > 0
    /\ FailedTransfers = {}

\* C17: for a 200 response with Content-Length L > 0 whose body delivers L
\* bytes and then end of stream, in any split into chunks, the file ends with
\* exactly these L bytes, the last onProgress has bytesRead = L and
\* progress = 1, onSuccess is invoked once, after every onProgress and with
\* the state of the last one, and downloadFile returns the path and nil.
C17_CompleteDownload ==
    CopiedToEnd =>
        /\ ret = [path |-> dstPath, err |-> "nil"]
        /\ Dest = File(BodyBytes(0, resp.ContentLength))
        /\ Len(calls) >= 2
        /\ TerminalCalls = {Len(calls)}
        /\ calls[Len(calls)].kind = "success"
        /\ calls[Len(calls) - 1].kind = "progress"
        /\ calls[Len(calls) - 1].bytesRead = resp.ContentLength
        /\ calls[Len(calls) - 1].progress = <<1, 1>>
        /\ StateOf(calls[Len(calls)]) = StateOf(calls[Len(calls) - 1])

\* C17 witness: three bytes copied in two chunks, the last one arriving
\* together with end of stream.
C17_Witness ==
    /\ CopiedToEnd
    /\ resp.ContentLength = 3
    /\ Cardinality(GoodWrites) = 2
    /\ log[Len(log) - 1].op = "read"
    /\ log[Len(log) - 1].err = "EOF"
    /\ log[Len(log) - 1].data # <<>>

\* the reads that reported end of stream
EOFReads == { i \in Reads : log[i].err = "EOF" }

\* What end of stream leads to: no read follows it, it is never reported as
\* an error, and unless the write of the bytes that came with it fails the
\* run ends with onSuccess and a nil error.
EndOfStreamEndsLoop ==
    \A i \in EOFReads :
        /\ \A j \in Reads : j <= i
        /\ \A c \in DOMAIN calls : calls[c].err # "EOF"
        /\ pc \in {"write", "success", "done"}
        /\ Returned =>
             \/ ret.err = "nil" /\ calls[Len(calls)].kind = "success"
             \/ ret.err = "write error" /\ Len(log) \in FailedTransfers

\* C18: the copy loop terminates: end of stream ends it without error, after
\* the bytes that came with it are written; a body that, after any reads of
\* zero bytes without error, reports end of stream or an error makes
\* downloadFile return.
C18_LoopTerminates ==
    /\ []EndOfStreamEndsLoop
    /\ (pc = "read") ~> Returned

\* C18 witness: a run that got a read of zero bytes without error, then
\* the last bytes together with end of stream, and returned nil.
C18_Witness ==
    /\ Returned
    /\ ret.err = "nil"
    /\ zeroReads >= 1
    /\ \E i \in EOFReads : log[i].data # <<>>

\* this step invokes onProgress
ProgressStep ==
    /\ Len(calls') = Len(calls) + 1
    /\ calls'[Len(calls')].kind = "progress"

\* the whole seconds the clock shows since timeStart
SecondsOnClock ==
    CHOOSE e \in 0..ticks : e * TicksPerSec <= ticks /\ ticks < (e + 1) * TicksPerSec

\* What onProgress is handed, c, when the clock shows e whole seconds:
\* speed = bytesRead / max(1, e) > 0, and with bytesTotal known
\* secondsRemaining * speed = bytesTotal - bytesRead, secondsRemaining >= 0,
\* and secondsRemaining = 0 exactly when bytesRead = bytesTotal.
RateAndRemaining(c, e) ==
    /\ Finite(c.speed)
    /\ c.speed[1] > 0
    /\ c.speed[1] * (IF e >= 1 THEN e ELSE 1) = c.bytesRead * c.speed[2]
    /\ Finite(c.secondsRemaining)
    /\ c.secondsRemaining[1] * c.speed[1]
         = (c.bytesTotal - c.bytesRead) * c.secondsRemaining[2] * c.speed[2]
    /\ c.bytesTotal >= 0 =>
         /\ c.secondsRemaining[1] >= 0
         /\ (c.secondsRemaining[1] = 0) <=> (c.bytesRead = c.bytesTotal)

\* C19: at every onProgress call speed is the cumulative average
\* bytesRead / max(1, whole elapsed seconds), hence positive, so the division
\* for secondsRemaining has no zero divisor; with bytesTotal known,
\* secondsRemaining * speed = bytesTotal - bytesRead, secondsRemaining >= 0,
\* and it is 0 exactly when bytesRead = bytesTotal.
C19_SpeedAndRemaining ==
    [][ProgressStep => RateAndRemaining(calls'[Len(calls')], SecondsOnClock)]_vars

\* C19 witness: an onProgress after two whole seconds, with bytes remaining.
C19_Witness ==
    \E i \in ProgressCalls :
        /\ calls[i].bytesTotal = 3
        /\ calls[i].bytesRead = 2
        /\ calls[i].speed = <<1, 1>>
        /\ calls[i].secondsRemaining = <<1, 1>>

FailureCalls == { i \in DOMAIN calls : calls[i].kind = "failure" }

\* the state onFailure is handed is that of the last written chunk: of the
\* onProgress before it, or all zero when there is none
StateOfLastChunk(i) ==
    IF i = 1
    THEN StateOf(calls[i]) = <<bytesTotal, 0, Float(0), Float(0), Float(0)>>
    ELSE /\ calls[i - 1].kind = "progress"
         /\ StateOf(calls[i]) = StateOf(calls[i - 1])

\* C20 as stated: at every onFailure call the transfer state passed is that
\* of the last successfully written chunk (all zero if none), and bytesRead
\* is the number of bytes in the partial file, also after a short write.
C20_FailureStateIsFileSize ==
    \A i \in FailureCalls :
        /\ StateOfLastChunk(i)
        /\ calls[i].bytesRead = calls[i].fileLen

\* C20 as amended: at every onFailure call the transfer state passed is that
\* of the last successfully written chunk (all zero if none); the partial
\* file holds bytesRead bytes, plus the k < n bytes of the chunk that a
\* failing short write stored before reporting its error.
C20_FailureStateAndPartialFile ==
    \A i \in FailureCalls :
        /\ StateOfLastChunk(i)
        /\ calls[i].at \in FailedTransfers
        /\ calls[i].fileLen = calls[i].bytesRead + log[calls[i].at].stored
        /\ log[calls[i].at].op = "write" =>
               log[calls[i].at].stored < Len(log[calls[i].at].data)
        /\ log[calls[i].at].op = "read" => log[calls[i].at].stored = 0

\* C20 witness: after one chunk was written, a write of two bytes stored one
\* and failed.
C20_Witness ==
    \E i \in FailureCalls :
        /\ i >= 2
        /\ log[calls[i].at].op = "write"
        /\ log[calls[i].at].stored = 1
        /\ calls[i].fileLen = calls[i].bytesRead + 1

====
